---- MODULE Spec2Model ----
(***************************************************************************)
(* Process supervisor of src/src/index.ts: the memory watchdog, the        *)
(* resource teardown (cleanup), the signal and error handlers, the         *)
(* sequential agent bring-up (startAgents / startAgent) and the console    *)
(* loop (chat / handleUserInput).                                          *)
(*                                                                         *)
(* Node runs one callback at a time, to completion.  An action is one      *)
(* synchronous segment of the code, from the event that starts it to the   *)
(* next await (or to process.exit).  The two positions "preflight" and     *)
(* "startAgent" lie inside a synchronous segment: no signal, timer or      *)
(* I/O callback can run there (Yielded).                                   *)
(***************************************************************************)
EXTENDS Integers, Sequences, FiniteSets, TLC

\* Bounds of the model.
MaxChars == 2
MaxRounds == 2

NULL == "null"

\* index.ts:43-44
MEMORY_THRESHOLD == 350 * 1024 * 1024
CRITICAL_MEMORY_THRESHOLD == 375 * 1024 * 1024

\* Heap samples process.memoryUsage().heapUsed can return: around both thresholds.
Samples ==
    { MEMORY_THRESHOLD - 1, MEMORY_THRESHOLD, MEMORY_THRESHOLD + 1,
      CRITICAL_MEMORY_THRESHOLD, CRITICAL_MEMORY_THRESHOLD + 1 }

\* Console input lines, as sequences of characters.
Lines ==
    { <<"e","x","i","t">>, <<"E","X","I","T">>, <<" "," ","E","x","i","t"," ">>,
      <<"e","x","i","t"," ">>, <<"h","i">>, <<>> }

\* A character file given on the command line: valid (with or without a
\* declared platform client) or one that fails to parse or validate.
CharacterKinds == {"plain", "twitter"}
FileKinds == CharacterKinds \cup {"invalid"}

SeqsUpTo(S, n) == UNION { [1..k -> S] : k \in 1..n }

\* process.argv: no --characters argument (<<>>), or a list of character files.
ArgvChoices == {<<>>} \cup SeqsUpTo(FileKinds, MaxChars)

\* The operations of cleanup() that can throw: the two close() calls and the
\* access to require.cache (a ReferenceError under an ES-module build).
Faults == {"none", "rl.close", "db.close", "require.cache"}

\* Non-success statuses the message endpoint can answer with (!response.ok).
ErrorStatuses == {404, 500}

VARIABLES
    argv,            \* the character files given on the command line
    pc,              \* position of startAgents
    characters,      \* the loaded character list
    idx,             \* index of the character of the current loop iteration
    runtime,         \* the runtime startAgent is building
    started,         \* characters whose startAgent has begun, in order
    registered,      \* runtimes registered with the direct client, in order
    delayed,         \* characters whose inter-instance delay has elapsed
    clientWarnings,  \* characters whose client start-up failed (warned)
    rl, db, dbAdapter, cache, directClient,   \* index.ts:34-39
    isShuttingDown,  \* index.ts:35
    opened,          \* how often each closeable resource was opened
    closed,          \* how often each closeable resource was closed
    cleanupCalls,    \* number of cleanup() invocations
    cleanupLog,      \* steps the last cleanup() completed, in order
    cleanupThrew,    \* the step whose error the last cleanup() caught and logged
    exited, exitCode, exitTrigger,            \* process.exit
    lastCheck,       \* sample and outcome of the last checkMemoryUsage
    checkTick,       \* flips at every checkMemoryUsage
    pendingPrompts,  \* rl.question callbacks waiting for a line
    outstanding,     \* fetch requests in flight
    jsonPending,     \* response.json() in flight
    rearmTimers,     \* setTimeout(chat, 100) timers armed
    rounds,          \* input lines consumed
    requestsSent,    \* message requests sent
    lastInput,       \* the last input line
    lastRound,       \* outcome of the last round-trip
    lastStatus,      \* HTTP status of the last fetch (0: no response)
    responseHeld     \* a response was received and its body not released

regVars == <<isShuttingDown, rl, db, dbAdapter, cache, directClient,
             closed, cleanupCalls, cleanupLog, cleanupThrew>>
exitVars == <<exited, exitCode, exitTrigger>>
checkVars == <<lastCheck, checkTick>>
bringVars == <<pc, characters, idx, runtime, started, registered, delayed,
               clientWarnings>>
consoleVars == <<pendingPrompts, outstanding, jsonPending, rearmTimers, rounds,
                 requestsSent, lastInput, lastRound, lastStatus,
                 responseHeld>>
vars == <<argv, opened, regVars, exitVars, checkVars, bringVars, consoleVars>>

----------------------------------------------------------------------------
\* String.prototype.toLowerCase on the characters the lines use.
LowerChar(c) ==
    CASE c = "E" -> "e"
      [] c = "X" -> "x"
      [] c = "I" -> "i"
      [] c = "T" -> "t"
      [] c = "H" -> "h"
      [] OTHER -> c

toLowerCase(line) == [i \in 1..Len(line) |-> LowerChar(line[i])]

\* Mutant: the comparison without toLowerCase().
IsExitCommandCaseSensitive(line) == line = <<"e","x","i","t">>

\* index.ts:395
IsExitCommand(line) == toLowerCase(line) = <<"e","x","i","t">>

----------------------------------------------------------------------------
\* Mutant: the storage handle is closed before the console handle.
CleanupOrderStorageFirst ==
    << "db.close", "rl.close", "dbAdapter", "cache", "directClient",
       "gc", "require.cache", "intervals", "timeouts" >>

\* cleanup(), index.ts:88-136: one try block around every step.
CleanupOrder ==
    << "rl.close", "db.close", "dbAdapter", "cache", "directClient",
       "gc", "require.cache", "intervals", "timeouts" >>

Pos(step) == CHOOSE i \in 1..Len(CleanupOrder) : CleanupOrder[i] = step

Handles ==
    [rl |-> rl, db |-> db, dbAdapter |-> dbAdapter, cache |-> cache,
     directClient |-> directClient]

\* The if-guards of the steps.
Executes(h, step) ==
    CASE step = "rl.close" -> h.rl # NULL
      [] step = "db.close" -> h.db # NULL
      [] step = "dbAdapter" -> h.dbAdapter # NULL
      [] step = "cache" -> h.cache # NULL
      [] step = "directClient" -> h.directClient # NULL
      [] OTHER -> TRUE

\* The position of the step that throws, 0 when none does.
ThrownAt(h, fault) ==
    IF fault # "none" /\ Executes(h, fault) THEN Pos(fault) ELSE 0

\* The step ran to its end: everything after a throw is skipped (one try).
Completed(h, fault, step) ==
    /\ Executes(h, step)
    /\ ThrownAt(h, fault) = 0 \/ Pos(step) < ThrownAt(h, fault)

cleanupOn(h, fault) ==
    /\ isShuttingDown' = TRUE
    /\ rl' = IF Completed(h, fault, "rl.close") THEN NULL ELSE h.rl
    /\ db' = IF Completed(h, fault, "db.close") THEN NULL ELSE h.db
    /\ dbAdapter' = IF Completed(h, fault, "dbAdapter") THEN NULL ELSE h.dbAdapter
    /\ cache' = IF Completed(h, fault, "cache") THEN NULL ELSE h.cache
    /\ directClient' =
          IF Completed(h, fault, "directClient") THEN NULL ELSE h.directClient
    /\ closed' =
          [rl |-> closed.rl + (IF Completed(h, fault, "rl.close") THEN 1 ELSE 0),
           db |-> closed.db + (IF Completed(h, fault, "db.close") THEN 1 ELSE 0)]
    /\ cleanupLog' = SelectSeq(CleanupOrder, LAMBDA s : Completed(h, fault, s))
    /\ cleanupCalls' = cleanupCalls + 1
    /\ cleanupThrew' = IF ThrownAt(h, fault) # 0 THEN fault ELSE "none"

cleanup(fault) == cleanupOn(Handles, fault)

\* Mutant: the exit is recorded but the process keeps running.
processExitReturns(code, trigger) ==
    /\ exited' = exited
    /\ exitCode' = code
    /\ exitTrigger' = trigger

\* process.exit(code): nothing runs after it.
processExit(code, trigger) ==
    /\ exited' = TRUE
    /\ exitCode' = code
    /\ exitTrigger' = trigger

Running == ~exited

\* Between callbacks: the event loop can deliver a signal, a timer or an I/O result.
Yielded == pc \notin {"preflight", "startAgent"}

----------------------------------------------------------------------------
\* Mutant: the Warning branch is tested first, so the Critical one is dead.
CheckOutcomeWarningFirst(s) ==
    IF s > MEMORY_THRESHOLD THEN "gc"
    ELSE IF s > CRITICAL_MEMORY_THRESHOLD THEN "critical"
    ELSE "none"

\* Mutant: the sample in bytes is compared with the thresholds in megabytes.
CheckOutcomeInMegabytes(s) ==
    IF s > CRITICAL_MEMORY_THRESHOLD \div (1024 * 1024) THEN "critical"
    ELSE IF s > MEMORY_THRESHOLD \div (1024 * 1024) THEN "gc"
    ELSE "none"

\* Mutant: both branches test the Critical threshold.
CheckOutcomeOneThreshold(s) ==
    IF s > CRITICAL_MEMORY_THRESHOLD THEN "critical"
    ELSE IF s > CRITICAL_MEMORY_THRESHOLD THEN "gc"
    ELSE "none"

\* checkMemoryUsage(), index.ts:46-59
CheckOutcome(s) ==
    IF s > CRITICAL_MEMORY_THRESHOLD THEN "critical"
    ELSE IF s > MEMORY_THRESHOLD THEN "gc"
    ELSE "none"

checkMemoryUsage(s, fault) ==
    /\ lastCheck' = [sample |-> s, outcome |-> CheckOutcome(s)]
    /\ checkTick' = ~checkTick
    /\ IF CheckOutcome(s) = "critical"
       THEN cleanup(fault) /\ processExit(1, "memory")
       ELSE UNCHANGED <<regVars, exitVars>>

\* setInterval(checkMemoryUsage, MEMORY_CHECK_INTERVAL), index.ts:62
WatchdogTick(s, fault) ==
    /\ Running /\ Yielded
    /\ checkMemoryUsage(s, fault)
    /\ UNCHANGED <<argv, opened, bringVars, consoleVars>>

----------------------------------------------------------------------------
\* Mutant: the handler tears down and returns, without process.exit.
HandlerWithoutExit(code, trigger, fault) ==
    /\ Running /\ Yielded
    /\ cleanup(fault)
    /\ UNCHANGED <<argv, opened, exitVars, checkVars, bringVars, consoleVars>>

\* The handlers of index.ts:64-86
Handler(code, trigger, fault) ==
    /\ Running /\ Yielded
    /\ cleanup(fault)
    /\ processExit(code, trigger)
    /\ UNCHANGED <<argv, opened, checkVars, bringVars, consoleVars>>

OnSIGINT(fault) == Handler(0, "SIGINT", fault)

\* Mutant: SIGTERM handled as a failure.
OnSIGTERMAsFailure(fault) == Handler(1, "SIGTERM", fault)

OnSIGTERM(fault) == Handler(0, "SIGTERM", fault)

OnUncaughtException(fault) == Handler(1, "uncaughtException", fault)

OnUnhandledRejection(fault) == Handler(1, "unhandledRejection", fault)

----------------------------------------------------------------------------
\* startAgents(), index.ts:363-426.  Its catch block (421-425) and the
\* .catch of its call (428-432) both run cleanup() and process.exit(1).
\* Mutant: the catch exits without the teardown.
BringUpFailureNoCleanup(h, fault) ==
    /\ processExit(1, "bringUp")
    /\ UNCHANGED regVars

BringUpFailure(h, fault) ==
    /\ cleanupOn(h, fault)
    /\ processExit(1, "bringUp")

\* The same catch, reached from a throw of client.registerAgent (350).
RegisterFailure(h, fault) ==
    /\ cleanupOn(h, fault)
    /\ processExit(1, "registerAgent")

\* DirectClientInterface.start() resolved (365-366), no --characters
\* argument: the built-in character is the list (371).
DirectClientStartedDefault(kind) ==
    /\ Running /\ pc = "awaitDirectClient"
    /\ argv = <<>>
    /\ directClient' = "client"
    /\ characters' = <<kind>>
    /\ idx' = 1
    /\ pc' = "preflight"
    /\ UNCHANGED <<argv, opened, isShuttingDown, rl, db, dbAdapter, cache, closed,
                   cleanupCalls, cleanupLog, cleanupThrew, exitVars, checkVars,
                   runtime, started, registered, delayed, clientWarnings,
                   consoleVars>>

\* ... with a --characters argument whose files all load (372-374, 165-199).
DirectClientStartedLoaded ==
    /\ Running /\ pc = "awaitDirectClient"
    /\ argv # <<>>
    /\ \A i \in 1..Len(argv) : argv[i] # "invalid"
    /\ directClient' = "client"
    /\ characters' = argv
    /\ idx' = 1
    /\ pc' = "preflight"
    /\ UNCHANGED <<argv, opened, isShuttingDown, rl, db, dbAdapter, cache, closed,
                   cleanupCalls, cleanupLog, cleanupThrew, exitVars, checkVars,
                   runtime, started, registered, delayed, clientWarnings,
                   consoleVars>>

\* ... with a file that fails to parse or validate: loadCharacters calls
\* process.exit(1) itself (185-189).
LoadCharactersFails ==
    /\ Running /\ pc = "awaitDirectClient"
    /\ \E i \in 1..Len(argv) : argv[i] = "invalid"
    /\ directClient' = "client"
    /\ processExit(1, "loadCharacters")
    /\ UNCHANGED <<argv, opened, isShuttingDown, rl, db, dbAdapter, cache, closed,
                   cleanupCalls, cleanupLog, cleanupThrew, checkVars, bringVars,
                   consoleVars>>

\* DirectClientInterface.start() rejected.
DirectClientFailed(fault) ==
    /\ Running /\ pc = "awaitDirectClient"
    /\ BringUpFailure(Handles, fault)
    /\ UNCHANGED <<argv, opened, checkVars, bringVars, consoleVars>>

\* Mutant: the loop starts the character without the memory check.
BringUpWithoutCheck(s, fault) ==
    /\ Running /\ pc = "preflight"
    /\ idx <= Len(characters)
    /\ pc' = "startAgent"
    /\ UNCHANGED <<argv, opened, regVars, exitVars, checkVars, characters, idx,
                   runtime, started, registered, delayed, clientWarnings,
                   consoleVars>>

\* The loop head (377-378): the memory check before a character.
BringUpCheck(s, fault) ==
    /\ Running /\ pc = "preflight"
    /\ idx <= Len(characters)
    /\ checkMemoryUsage(s, fault)
    /\ pc' = IF CheckOutcome(s) = "critical" THEN pc ELSE "startAgent"
    /\ UNCHANGED <<argv, opened, characters, idx, runtime, started, registered,
                   delayed, clientWarnings, consoleVars>>

\* initializeDatabase(), index.ts:247-256: the handle is opened once.
DatabaseOpens == dbAdapter = NULL

\* startAgent() up to its first await (326-337).
StartAgentSync ==
    /\ Running /\ pc = "startAgent"
    /\ started' = Append(started, idx)
    /\ db' = IF DatabaseOpens THEN "db" ELSE db
    /\ dbAdapter' = IF DatabaseOpens THEN "adapter" ELSE dbAdapter
    /\ opened' = IF DatabaseOpens THEN [opened EXCEPT !.db = @ + 1] ELSE opened
    /\ pc' = "awaitDbInit"
    /\ UNCHANGED <<argv, isShuttingDown, rl, cache, directClient, closed,
                   cleanupCalls, cleanupLog, cleanupThrew, exitVars, checkVars,
                   characters, idx, runtime, registered, delayed, clientWarnings,
                   consoleVars>>

\* ... where a step throws: before the database is opened (defaults, token,
\* mkdir, new Database) or after it (new SqliteDatabaseAdapter, db.init()).
\* startAgent logs and rethrows (354-360), startAgents cleans up and exits.
StartAgentSyncThrows(afterOpen, fault) ==
    /\ Running /\ pc = "startAgent"
    /\ started' = Append(started, idx)
    /\ LET opens == afterOpen /\ DatabaseOpens
       IN /\ opened' = IF opens THEN [opened EXCEPT !.db = @ + 1] ELSE opened
          /\ BringUpFailure([Handles EXCEPT !.db = IF opens THEN "db" ELSE @], fault)
    /\ UNCHANGED <<argv, checkVars, pc, characters, idx, runtime, registered,
                   delayed, clientWarnings, consoleVars>>

\* Mutant: no memoization, a cache per character.
CacheForEachCharacter(i) == "cache:" \o ToString(i)

\* intializeDbCache(), index.ts:316-322: memoized on the first character.
\* The new cache is built on the character's id (320).
CacheFor(i) == IF cache # NULL THEN cache ELSE "cache:" \o ToString(i)

\* db.init() resolved: cache, createAgent, runtime.initialize() (339-342).
DbInitResolved ==
    /\ Running /\ pc = "awaitDbInit"
    /\ cache' = CacheFor(idx)
    /\ opened' = IF cache = NULL THEN [opened EXCEPT !.cache = @ + 1] ELSE opened
    /\ runtime' = [character |-> idx, db |-> dbAdapter, cache |-> CacheFor(idx)]
    /\ pc' = "awaitRuntimeInit"
    /\ UNCHANGED <<argv, isShuttingDown, rl, db, dbAdapter, directClient, closed,
                   cleanupCalls, cleanupLog, cleanupThrew, exitVars, checkVars,
                   characters, idx, started, registered, delayed, clientWarnings,
                   consoleVars>>

\* An awaited bring-up step rejected (db.init, runtime.initialize), or
\* createAgent threw.
AwaitedStepRejected(fault) ==
    /\ Running /\ pc \in {"awaitDbInit", "awaitRuntimeInit"}
    /\ BringUpFailure(Handles, fault)
    /\ UNCHANGED <<argv, opened, checkVars, bringVars, consoleVars>>

\* client.registerAgent(runtime), the GC hint, and the loop's delay timer
\* (350-353, 380); registerAgent throwing is a bring-up failure.
Register(ok, fault) ==
    IF ok
    THEN /\ registered' = Append(registered, runtime)
         /\ pc' = "awaitDelay"
         /\ UNCHANGED <<regVars, exitVars>>
    ELSE /\ RegisterFailure(Handles, fault)
         /\ UNCHANGED <<registered, pc>>

\* runtime.initialize() resolved, the character declares a client:
\* initializeClients awaits its start (265-267, 270-277).
RuntimeInitResolvedClients ==
    /\ Running /\ pc = "awaitRuntimeInit"
    /\ characters[idx] = "twitter"
    /\ pc' = "awaitClients"
    /\ UNCHANGED <<argv, opened, regVars, exitVars, checkVars, characters, idx,
                   runtime, started, registered, delayed, clientWarnings,
                   consoleVars>>

\* ... the character declares none: registration follows at once.
RuntimeInitResolvedNoClients(ok, fault) ==
    /\ Running /\ pc = "awaitRuntimeInit"
    /\ characters[idx] # "twitter"
    /\ Register(ok, fault)
    /\ UNCHANGED <<argv, opened, checkVars, characters, idx, runtime, started,
                   delayed, clientWarnings, consoleVars>>

\* The client started.
ClientsResolved(ok, fault) ==
    /\ Running /\ pc = "awaitClients"
    /\ Register(ok, fault)
    /\ UNCHANGED <<argv, opened, checkVars, characters, idx, runtime, started,
                   delayed, clientWarnings, consoleVars>>

\* Mutant: no inner try, the client failure is a bring-up failure.
ClientsRejectedFatal(ok, fault) ==
    /\ Running /\ pc = "awaitClients"
    /\ clientWarnings' = clientWarnings \cup {idx}
    /\ BringUpFailure(Handles, fault)
    /\ UNCHANGED <<argv, opened, checkVars, pc, characters, idx, runtime, started,
                   registered, delayed, consoleVars>>

\* The client failed to start: a warning, and bring-up goes on (344-348).
ClientsRejected(ok, fault) ==
    /\ Running /\ pc = "awaitClients"
    /\ clientWarnings' = clientWarnings \cup {idx}
    /\ Register(ok, fault)
    /\ UNCHANGED <<argv, opened, checkVars, characters, idx, runtime, started,
                   delayed, consoleVars>>

\* Mutant: the delay promise is not awaited, the loop goes on at once.
DelayNotAwaited ==
    /\ Running /\ pc = "awaitDelay"
    /\ idx' = idx + 1
    /\ pc' = "preflight"
    /\ UNCHANGED <<argv, opened, regVars, exitVars, checkVars, characters, runtime,
                   started, registered, delayed, clientWarnings, consoleVars>>

\* The 2000 ms timer of the loop fired (380-382): next iteration.
DelayElapsed ==
    /\ Running /\ pc = "awaitDelay"
    /\ delayed' = delayed \cup {idx}
    /\ idx' = idx + 1
    /\ pc' = "preflight"
    /\ UNCHANGED <<argv, opened, regVars, exitVars, checkVars, characters, runtime,
                   started, registered, clientWarnings, consoleVars>>

----------------------------------------------------------------------------
\* chat(), index.ts:389-393: arm one prompt unless shutting down.
chat(flag, handle) ==
    IF flag \/ handle = NULL THEN pendingPrompts ELSE pendingPrompts + 1

\* Mutant: the console is started before the loop over the characters ends.
CreateConsoleEarly ==
    /\ Running /\ pc = "preflight"
    /\ rl' = "rl"
    /\ opened' = [opened EXCEPT !.rl = @ + 1]
    /\ pendingPrompts' = chat(isShuttingDown, "rl")
    /\ pc' = "console"
    /\ UNCHANGED <<argv, isShuttingDown, db, dbAdapter, cache, directClient, closed,
                   cleanupCalls, cleanupLog, cleanupThrew, exitVars, checkVars,
                   characters, idx, runtime, started, registered, delayed,
                   clientWarnings, outstanding, jsonPending, rearmTimers, rounds,
                   requestsSent, lastInput, lastRound, lastStatus,
                   responseHeld>>

\* After the loop: the console handle and the first prompt (384-419).
CreateConsole ==
    /\ Running /\ pc = "preflight"
    /\ idx > Len(characters)
    /\ rl' = "rl"
    /\ opened' = [opened EXCEPT !.rl = @ + 1]
    /\ pendingPrompts' = chat(isShuttingDown, "rl")
    /\ pc' = "console"
    /\ UNCHANGED <<argv, isShuttingDown, db, dbAdapter, cache, directClient, closed,
                   cleanupCalls, cleanupLog, cleanupThrew, exitVars, checkVars,
                   characters, idx, runtime, started, registered, delayed,
                   clientWarnings, outstanding, jsonPending, rearmTimers, rounds,
                   requestsSent, lastInput, lastRound, lastStatus,
                   responseHeld>>

\* The question callback with the line "exit" (395-399).
InputExit(line, fault) ==
    /\ Running /\ Yielded
    /\ pendingPrompts > 0 /\ rounds < MaxRounds
    /\ IsExitCommand(line)
    /\ pendingPrompts' = pendingPrompts - 1
    /\ rounds' = rounds + 1
    /\ lastInput' = line
    /\ cleanup(fault)
    /\ processExit(0, "exit")
    /\ UNCHANGED <<argv, opened, checkVars, bringVars, outstanding, jsonPending,
                   rearmTimers, requestsSent, lastRound, lastStatus,
                   responseHeld>>

\* Mutant: handleUserInput is not awaited, the loop re-arms with the request
\* still in flight.
InputMessageNotAwaited(line, s, fault) ==
    /\ Running /\ Yielded
    /\ pendingPrompts > 0 /\ rounds < MaxRounds
    /\ ~IsExitCommand(line)
    /\ pendingPrompts' = pendingPrompts - 1
    /\ rounds' = rounds + 1
    /\ lastInput' = line
    /\ checkMemoryUsage(s, fault)
    /\ IF CheckOutcome(s) = "critical"
       THEN UNCHANGED <<outstanding, requestsSent, rearmTimers>>
       ELSE /\ outstanding' = outstanding + 1
            /\ requestsSent' = requestsSent + 1
            /\ rearmTimers' = rearmTimers + 1
    /\ UNCHANGED <<argv, opened, bringVars, jsonPending, lastRound, lastStatus,
                   responseHeld>>

\* The question callback with any other line: the memory check, then the
\* request of handleUserInput (401-402, 438-449).
InputMessage(line, s, fault) ==
    /\ Running /\ Yielded
    /\ pendingPrompts > 0 /\ rounds < MaxRounds
    /\ ~IsExitCommand(line)
    /\ pendingPrompts' = pendingPrompts - 1
    /\ rounds' = rounds + 1
    /\ lastInput' = line
    /\ checkMemoryUsage(s, fault)
    /\ IF CheckOutcome(s) = "critical"
       THEN UNCHANGED <<outstanding, requestsSent>>
       ELSE /\ outstanding' = outstanding + 1
            /\ requestsSent' = requestsSent + 1
    /\ UNCHANGED <<argv, opened, bringVars, jsonPending, rearmTimers, lastRound,
                   lastStatus, responseHeld>>

\* The catch of the question callback (409-414): log, and re-arm unless
\* shutting down.
Rearm == IF ~isShuttingDown THEN rearmTimers + 1 ELSE rearmTimers

\* fetch resolved with a success status: response.json() is awaited (455).
FetchResolvedOk ==
    /\ Running /\ Yielded
    /\ outstanding > 0
    /\ outstanding' = outstanding - 1
    /\ jsonPending' = jsonPending + 1
    /\ responseHeld' = TRUE
    /\ lastStatus' = 200
    /\ UNCHANGED <<argv, opened, regVars, exitVars, checkVars, bringVars,
                   pendingPrompts, rearmTimers, rounds, requestsSent, lastInput,
                   lastRound>>

\* Mutant: the failed round-trip is logged but the loop is not re-armed.
FetchResolvedNotOkNoRearm(status) ==
    /\ Running /\ Yielded
    /\ outstanding > 0
    /\ outstanding' = outstanding - 1
    /\ responseHeld' = TRUE
    /\ lastStatus' = status
    /\ lastRound' = "error"
    /\ UNCHANGED <<argv, opened, regVars, exitVars, checkVars, bringVars,
                   pendingPrompts, jsonPending, rearmTimers, rounds, requestsSent,
                   lastInput>>

\* fetch resolved with a non-success status: handleUserInput throws
\* (451-453, 460-463), chat logs and re-arms.
FetchResolvedNotOk(status) ==
    /\ Running /\ Yielded
    /\ outstanding > 0
    /\ outstanding' = outstanding - 1
    /\ responseHeld' = TRUE
    /\ lastStatus' = status
    /\ lastRound' = "error"
    /\ rearmTimers' = Rearm
    /\ UNCHANGED <<argv, opened, regVars, exitVars, checkVars, bringVars,
                   pendingPrompts, jsonPending, rounds, requestsSent, lastInput>>

\* fetch rejected: no response at all.
FetchRejected ==
    /\ Running /\ Yielded
    /\ outstanding > 0
    /\ outstanding' = outstanding - 1
    /\ lastStatus' = 0
    /\ lastRound' = "error"
    /\ rearmTimers' = Rearm
    /\ UNCHANGED <<argv, opened, regVars, exitVars, checkVars, bringVars,
                   pendingPrompts, jsonPending, rounds, requestsSent, lastInput,
                   responseHeld>>

\* response.json() resolved with an array: print, release the body, GC hint,
\* re-arm (455-459, 403-408).
JsonResolved ==
    /\ Running /\ Yielded
    /\ jsonPending > 0
    /\ jsonPending' = jsonPending - 1
    /\ responseHeld' = FALSE
    /\ lastRound' = "ok"
    /\ rearmTimers' = Rearm
    /\ UNCHANGED <<argv, opened, regVars, exitVars, checkVars, bringVars,
                   pendingPrompts, outstanding, rounds, requestsSent, lastInput,
                   lastStatus>>

\* response.json() rejected, or its value has no forEach: the error path.
JsonFailed ==
    /\ Running /\ Yielded
    /\ jsonPending > 0
    /\ jsonPending' = jsonPending - 1
    /\ lastRound' = "error"
    /\ rearmTimers' = Rearm
    /\ UNCHANGED <<argv, opened, regVars, exitVars, checkVars, bringVars,
                   pendingPrompts, outstanding, rounds, requestsSent, lastInput,
                   lastStatus, responseHeld>>

\* The 100 ms timer fired: chat() (407, 412, 389-393).
RearmFires ==
    /\ Running /\ Yielded
    /\ rearmTimers > 0
    /\ rearmTimers' = rearmTimers - 1
    /\ pendingPrompts' = chat(isShuttingDown, rl)
    /\ UNCHANGED <<argv, opened, regVars, exitVars, checkVars, bringVars,
                   outstanding, jsonPending, rounds, requestsSent, lastInput,
                   lastRound, lastStatus, responseHeld>>

----------------------------------------------------------------------------
\* The state once the module is loaded: handlers and watchdog registered,
\* startAgents() waiting for the direct client (index.ts:34-39, 62, 428).
Init ==
    /\ argv \in ArgvChoices
    /\ pc = "awaitDirectClient"
    /\ characters = <<>>
    /\ idx = 0
    /\ runtime = NULL
    /\ started = <<>>
    /\ registered = <<>>
    /\ delayed = {}
    /\ clientWarnings = {}
    /\ rl = NULL /\ db = NULL /\ dbAdapter = NULL /\ cache = NULL
    /\ directClient = NULL
    /\ isShuttingDown = FALSE
    /\ opened = [rl |-> 0, db |-> 0, cache |-> 0]
    /\ closed = [rl |-> 0, db |-> 0]
    /\ cleanupCalls = 0
    /\ cleanupLog = <<>>
    /\ cleanupThrew = "none"
    /\ exited = FALSE /\ exitCode = 0 /\ exitTrigger = "none"
    /\ lastCheck = [sample |-> 0, outcome |-> "none"]
    /\ checkTick = FALSE
    /\ pendingPrompts = 0
    /\ outstanding = 0
    /\ jsonPending = 0
    /\ rearmTimers = 0
    /\ rounds = 0
    /\ requestsSent = 0
    /\ lastInput = <<>>
    /\ lastRound = "none"
    /\ lastStatus = 0
    /\ responseHeld = FALSE

Next ==
    \/ \E s \in Samples, f \in Faults : WatchdogTick(s, f)
    \/ \E f \in Faults : OnSIGINT(f)
    \/ \E f \in Faults : OnSIGTERM(f)
    \/ \E f \in Faults : OnUncaughtException(f)
    \/ \E f \in Faults : OnUnhandledRejection(f)
    \/ \E k \in CharacterKinds : DirectClientStartedDefault(k)
    \/ DirectClientStartedLoaded
    \/ LoadCharactersFails
    \/ \E f \in Faults : DirectClientFailed(f)
    \/ \E s \in Samples, f \in Faults : BringUpCheck(s, f)
    \/ StartAgentSync
    \/ \E a \in BOOLEAN, f \in Faults : StartAgentSyncThrows(a, f)
    \/ DbInitResolved
    \/ \E f \in Faults : AwaitedStepRejected(f)
    \/ RuntimeInitResolvedClients
    \/ \E ok \in BOOLEAN, f \in Faults : RuntimeInitResolvedNoClients(ok, f)
    \/ \E ok \in BOOLEAN, f \in Faults : ClientsResolved(ok, f)
    \/ \E ok \in BOOLEAN, f \in Faults : ClientsRejected(ok, f)
    \/ DelayElapsed
    \/ CreateConsole
    \/ \E l \in Lines, f \in Faults : InputExit(l, f)
    \/ \E l \in Lines, s \in Samples, f \in Faults : InputMessage(l, s, f)
    \/ FetchResolvedOk
    \/ \E st \in ErrorStatuses : FetchResolvedNotOk(st)
    \/ FetchRejected
    \/ JsonResolved
    \/ JsonFailed
    \/ RearmFires

Spec == Init /\ [][Next]_vars

\* A timer that is armed fires unless the process exits first.
FairSpec == Spec /\ WF_vars(RearmFires)

----------------------------------------------------------------------------
Range(s) == { s[i] : i \in 1..Len(s) }

\* C1: after any number (>= 1) of cleanup() invocations, each owned closeable
\* handle (rl, db) that was opened has been closed exactly once: none is
\* closed twice, and none whose own close() did not fail is left open.
C1_EachHandleClosedExactlyOnce ==
    cleanupCalls >= 1 =>
        /\ closed.rl <= 1 /\ closed.db <= 1
        /\ opened.rl = 1 /\ cleanupThrew # "rl.close" => closed.rl = 1 /\ rl = NULL
        /\ opened.db = 1 /\ cleanupThrew # "db.close" => closed.db = 1 /\ db = NULL

\* C2: a step of cleanup() that fails is logged and does not keep the later
\* steps of the same call from running: whatever step threw, the storage
\* handle is closed, the cache and direct-client references are dropped, and
\* the GC hint, the timer clearing and the module-state clearing are done.
C2_StepsIndependentlyGuarded ==
    cleanupCalls >= 1 =>
        /\ cleanupThrew # "db.close" => db = NULL
        /\ dbAdapter = NULL /\ cache = NULL /\ directClient = NULL
        /\ {"gc", "intervals", "timeouts"} \subseteq Range(cleanupLog)
        /\ cleanupThrew # "require.cache" => "require.cache" \in Range(cleanupLog)

\* C3 as stated: a check whose sample is at or above the Critical threshold
\* (equal included) runs cleanup() and exits with a non-zero status.
C3_AtOrAboveCriticalExits ==
    lastCheck.sample >= CRITICAL_MEMORY_THRESHOLD =>
        exited /\ exitCode # 0 /\ cleanupCalls >= 1

\* C3 amended: a check whose sample is strictly above the Critical threshold
\* runs cleanup() and exits with status 1.
C3_AboveCriticalExits ==
    lastCheck.sample > CRITICAL_MEMORY_THRESHOLD =>
        /\ lastCheck.outcome = "critical"
        /\ exited /\ exitCode = 1 /\ exitTrigger = "memory"
        /\ cleanupCalls = 1 /\ isShuttingDown

C3_Witness ==
    /\ lastCheck.sample = CRITICAL_MEMORY_THRESHOLD + 1
    /\ exited /\ closed.db = 1

\* C4: a check whose sample is strictly below the Warning threshold requests
\* no GC hint, does not set the flag, does not run cleanup(), does not exit,
\* and leaves every resource handle as it was.
C4_BelowWarningNoAction ==
    [][ (checkTick' # checkTick /\ lastCheck'.sample < MEMORY_THRESHOLD) =>
            /\ lastCheck'.outcome = "none"
            /\ UNCHANGED <<isShuttingDown, cleanupCalls, exited, exitCode,
                           rl, db, dbAdapter, cache, directClient, opened, closed>>
      ]_vars

C4_Witness ==
    /\ lastCheck.sample = MEMORY_THRESHOLD - 1
    /\ ~exited /\ ~isShuttingDown
    /\ db # NULL /\ rl # NULL

RECURSIVE TrimStart(_), TrimEnd(_)
TrimStart(l) == IF Len(l) > 0 /\ Head(l) = " " THEN TrimStart(Tail(l)) ELSE l
TrimEnd(l) ==
    IF Len(l) > 0 /\ l[Len(l)] = " " THEN TrimEnd(SubSeq(l, 1, Len(l) - 1)) ELSE l
Trim(l) == TrimEnd(TrimStart(l))

\* What the exit command does: cleanup(), then exit with status 0, and no
\* message request for that line.
ExitCommandEffect ==
    /\ exited' /\ exitCode' = 0 /\ exitTrigger' = "exit"
    /\ isShuttingDown' /\ cleanupCalls' = cleanupCalls + 1
    /\ requestsSent' = requestsSent /\ outstanding' = outstanding

\* C5 as stated: every input line that equals "exit" after trimming the
\* surrounding whitespace and ignoring letter case shuts down: cleanup(),
\* then exit with status 0, and no message request for that line.
C5_TrimmedExitShutsDown ==
    [][ (rounds' = rounds + 1 /\ toLowerCase(Trim(lastInput')) = <<"e","x","i","t">>)
            => ExitCommandEffect ]_vars

\* C5 amended: every input line that equals "exit" ignoring letter case,
\* with no surrounding whitespace, shuts down in that way.
C5_ExitIgnoringCaseShutsDown ==
    [][ (rounds' = rounds + 1 /\ toLowerCase(lastInput') = <<"e","x","i","t">>)
            => ExitCommandEffect ]_vars

C5_Witness ==
    /\ exited /\ exitTrigger = "exit"
    /\ lastInput = <<"E","X","I","T">>
    /\ rounds = 2 /\ requestsSent = 1

\* C6: a round-trip that completes with a non-success HTTP status while no
\* shutdown is in progress is logged as an error, the process does not exit,
\* the flag stays false and the loop is re-armed; the armed loop then issues
\* a prompt (unless the process exits first).
C6_FailedRoundTripRearms ==
    /\ [][ (outstanding' = outstanding - 1 /\ lastStatus' \in ErrorStatuses
               /\ ~isShuttingDown)
            => /\ lastRound' = "error"
               /\ ~exited' /\ ~isShuttingDown'
               /\ rearmTimers' = rearmTimers + 1 ]_vars
    /\ (rearmTimers > 0 /\ lastRound = "error") ~> (pendingPrompts > 0 \/ exited)

C6_Witness ==
    /\ lastStatus = 500 /\ lastRound = "error"
    /\ pendingPrompts = 1 /\ rounds = 1
    /\ ~exited /\ ~isShuttingDown

\* C7: characters are brought up in list order, one at a time: startAgent
\* of character k begins only after character k-1 is registered with the
\* direct client and the delay after it has elapsed.
C7_SequentialBringUp ==
    /\ \A k \in 1..Len(started) : started[k] = k
    /\ \A j \in 1..Len(registered) : registered[j].character = j
    /\ Len(registered) <= Len(started)
    /\ Len(started) <= Len(registered) + 1
    /\ \A k \in 2..Len(started) : Len(registered) >= k - 1 /\ (k - 1) \in delayed

C7_Witness ==
    /\ Len(started) = 2 /\ Len(registered) = 2
    /\ pc = "console"

\* C8: a requested shutdown (SIGINT, SIGTERM, the exit command) exits with
\* status 0 and an error-triggered one (uncaught exception, unhandled
\* rejection) with status 1, cleanup() having run before the exit.
C8_ExitStatusByTrigger ==
    exited =>
        /\ exitTrigger \in {"SIGINT", "SIGTERM", "exit"} =>
              exitCode = 0 /\ cleanupCalls >= 1 /\ isShuttingDown
        /\ exitTrigger \in {"uncaughtException", "unhandledRejection"} =>
              exitCode = 1 /\ cleanupCalls >= 1 /\ isShuttingDown

C8_Witness ==
    /\ exited /\ exitTrigger = "SIGTERM" /\ exitCode = 0
    /\ closed.db = 1 /\ closed.rl = 1

\* C9: once isShuttingDown is true it stays true, and from then on no
\* bring-up step and no console round starts.
C9_ShutdownIsTerminal ==
    [][ isShuttingDown =>
            /\ isShuttingDown'
            /\ UNCHANGED <<pc, idx, started, registered, rounds, requestsSent>>
            /\ pendingPrompts' <= pendingPrompts
            /\ outstanding' <= outstanding ]_vars

C9_Witness ==
    /\ isShuttingDown /\ exited
    /\ pc = "awaitRuntimeInit"

\* C10: at most one prompt is pending and at most one message request is
\* outstanding; a prompt is pending or armed only when no round-trip is in
\* flight.
C10_OneRoundAtATime ==
    /\ pendingPrompts <= 1
    /\ outstanding + jsonPending <= 1
    /\ pendingPrompts + rearmTimers + outstanding + jsonPending <= 1

C10_Witness ==
    /\ outstanding = 1 /\ rounds = 2
    /\ pendingPrompts = 0 /\ rearmTimers = 0

\* C11: a bring-up step that raises (defaults, token, storage or cache
\* opening, runtime construction or initialization, registration) is fatal:
\* cleanup() runs, the process exits with a non-zero status, the failing
\* character is not registered, no later character is started and the
\* console is never created.
C11_BringUpFailureIsFatal ==
    exitTrigger \in {"bringUp", "registerAgent"} =>
        /\ exited /\ exitCode # 0
        /\ isShuttingDown /\ cleanupCalls = 1
        /\ Len(started) <= idx
        /\ Len(registered) = (IF idx = 0 THEN 0 ELSE idx - 1)
        /\ opened.rl = 0 /\ pendingPrompts = 0 /\ rounds = 0 /\ requestsSent = 0

C11_Witness ==
    /\ exited /\ exitTrigger = "bringUp"
    /\ idx = 2 /\ started = <<1, 2>> /\ Len(registered) = 1
    /\ closed.db = 1

\* C12: a client that fails to start is warned about and bring-up goes on:
\* in that step the runtime is registered and the process neither exits nor
\* sets the flag (unless registerAgent itself throws), and the loop still
\* brings up every character before the console starts.
C12_ClientFailureIsRecoverable ==
    /\ [][ clientWarnings' # clientWarnings =>
              \/ /\ registered' = Append(registered, runtime)
                 /\ pc' = "awaitDelay"
                 /\ ~exited' /\ ~isShuttingDown' /\ cleanupCalls' = cleanupCalls
              \/ exitTrigger' = "registerAgent" ]_vars
    /\ [](pc = "console" => Len(registered) = Len(characters))

C12_Witness ==
    /\ clientWarnings = {1}
    /\ Len(registered) = 2 /\ pc = "console"
    /\ ~exited /\ ~isShuttingDown

\* Position of a step in an order, 0 when it is not in it.
IndexIn(order, step) ==
    IF step \in Range(order)
    THEN CHOOSE i \in 1..Len(order) : order[i] = step
    ELSE 0

\* The steps of the last cleanup() follow the given order.
FollowsOrder(order) ==
    \A i, j \in 1..Len(cleanupLog) :
        (i < j /\ cleanupLog[i] \in Range(order) /\ cleanupLog[j] \in Range(order))
            => IndexIn(order, cleanupLog[i]) < IndexIn(order, cleanupLog[j])

\* C13 as stated: cleanup() closes the console handle, closes the storage
\* handle, drops the cache reference, drops the direct-client reference,
\* requests GC, clears the interval and timeout timers, and only then clears
\* the cached module state.
C13_TimersBeforeModuleState ==
    FollowsOrder(<< "rl.close", "db.close", "cache", "directClient", "gc",
                    "intervals", "timeouts", "require.cache" >>)

\* C13 amended: ... requests GC, clears the cached module state, and only
\* then clears the interval and timeout timers.
C13_ModuleStateBeforeTimers ==
    FollowsOrder(<< "rl.close", "db.close", "cache", "directClient", "gc",
                    "require.cache", "intervals", "timeouts" >>)

C13_Witness ==
    /\ cleanupCalls = 1 /\ cleanupThrew = "none"
    /\ Len(cleanupLog) = 9

\* C14: whenever the loop is re-armed after a round-trip that received a
\* response, of success or non-success status, the response's streaming
\* resources have been released.
C14_ResponseReleasedBeforeRearm ==
    (rearmTimers > 0 /\ lastStatus # 0) => ~responseHeld

\* C15 as stated: a check whose sample s has Warning <= s < Critical (equal
\* to Warning included) requests a GC hint, and neither runs cleanup() nor
\* exits.
C15_AtOrAboveWarningHintsGc ==
    [][ (checkTick' # checkTick
           /\ lastCheck'.sample >= MEMORY_THRESHOLD
           /\ lastCheck'.sample < CRITICAL_MEMORY_THRESHOLD)
            => /\ lastCheck'.outcome = "gc"
               /\ UNCHANGED <<isShuttingDown, cleanupCalls, exited>> ]_vars

\* C15 amended: a check whose sample s has Warning < s < Critical requests
\* a GC hint, and neither runs cleanup() nor exits.
C15_AboveWarningHintsGc ==
    [][ (checkTick' # checkTick
           /\ lastCheck'.sample > MEMORY_THRESHOLD
           /\ lastCheck'.sample < CRITICAL_MEMORY_THRESHOLD)
            => /\ lastCheck'.outcome = "gc"
               /\ UNCHANGED <<isShuttingDown, cleanupCalls, exited>> ]_vars

C15_Witness ==
    /\ lastCheck = [sample |-> MEMORY_THRESHOLD + 1, outcome |-> "gc"]
    /\ ~exited /\ ~isShuttingDown
    /\ pc = "awaitDbInit"

\* C16: no character's startAgent begins and no message request is sent
\* without a memory check having run immediately before it.
C16_CheckBeforeEveryStep ==
    [][ /\ Len(started') > Len(started) => pc = "startAgent"
        /\ (pc' = "startAgent" /\ pc # "startAgent") =>
              /\ checkTick' # checkTick
              /\ lastCheck'.outcome # "critical"
              /\ started' = started /\ opened' = opened /\ runtime' = runtime
        /\ requestsSent' > requestsSent =>
              checkTick' # checkTick /\ lastCheck'.outcome # "critical" ]_vars

C16_Witness ==
    /\ Len(started) = 2
    /\ requestsSent = 2

\* C17: the storage handle is opened at most once and the cache is created
\* at most once; every runtime is given the same storage handle and the
\* same cache as the first one.
C17_SharedStorageAndCache ==
    /\ opened.db <= 1 /\ opened.cache <= 1
    /\ \A j \in 1..Len(registered) :
          /\ registered[j].db = registered[1].db
          /\ registered[j].cache = registered[1].cache

C17_Witness ==
    /\ Len(registered) = 2
    /\ registered[2].character = 2 /\ registered[2].cache = "cache:1"
    /\ opened.db = 1 /\ opened.cache = 1

\* C18: once isShuttingDown is true the console loop arms nothing: no new
\* prompt, no new timer and no new message request, also when the flag was
\* set with a round-trip in flight; and no step that arms one of them sets
\* the flag.
C18_NoRearmAfterShutdown ==
    [][ /\ isShuttingDown =>
               /\ pendingPrompts' <= pendingPrompts
               /\ rearmTimers' <= rearmTimers
               /\ requestsSent' = requestsSent
               /\ outstanding' <= outstanding
        /\ (\/ pendingPrompts' > pendingPrompts
            \/ rearmTimers' > rearmTimers
            \/ requestsSent' > requestsSent) => ~isShuttingDown' ]_vars

C18_Witness ==
    /\ isShuttingDown
    /\ outstanding = 1 /\ rearmTimers = 0 /\ pendingPrompts = 0

\* C19: every process exit is preceded by the teardown: the flag is set and
\* cleanup() has run.
C19_EveryExitAfterTeardown ==
    exited => isShuttingDown /\ cleanupCalls >= 1

\* C20: the console handle exists, a prompt is pending or a line has been
\* read only when every configured character has been brought up and
\* registered with the direct client.
C20_ConsoleAfterAllBringUps ==
    (rl # NULL \/ opened.rl > 0 \/ pendingPrompts > 0 \/ rounds > 0
        \/ requestsSent > 0)
      => /\ Len(characters) >= 1
         /\ Len(registered) = Len(characters)
         /\ delayed = 1..Len(characters)
         /\ pc = "console"

C20_Witness ==
    /\ pendingPrompts = 1 /\ rl # NULL
    /\ Len(characters) = 2 /\ Len(registered) = 2

====
